---------------------------- MODULE Spec2Model ----------------------------
(***************************************************************************)
(* A model of the Dabblebase TypeScript client: the realtime client        *)
(* (createRealtimeClient), the auth client (createAuthClient) and the      *)
(* storage client (createStorageClient).                                   *)
(*                                                                         *)
(* The phoenix Socket/Channel objects, jsonwebtoken's verify and the       *)
(* browser's fetch/FormData are outside the repository.  They appear here  *)
(* as the effects the client's code has on them (the calls it makes, in    *)
(* order) and as the replies and events they hand back to the callbacks    *)
(* the client registers, chosen nondeterministically.                      *)
(***************************************************************************)
EXTENDS Integers, Sequences, FiniteSets, TLC

VARIABLES
    conns,      \* realtime: the connections built so far, in creation order
    auth,       \* auth client: its configuration and the last verify call
    storage     \* storage client: its configuration and the last call

vars == <<conns, auth, storage>>

(***************************************************************************)
(* Bounds of the model.                                                    *)
(***************************************************************************)
MaxConns == 2            \* realtime connections that coexist
MaxDisconnects == 2      \* disconnect() calls on one connection
MaxEvents == 2           \* inbound channel events handled by one connection
MaxPushes == 1           \* broadcast() calls on one connection
MaxVerifyCalls == 3      \* verify calls on the auth client
MaxStorageCalls == 2     \* calls on the storage client
MaxPathLen == 2          \* characters of a storage path

(***************************************************************************)
(* JavaScript values.                                                      *)
(***************************************************************************)
\* `undefined`, for an optional string that is not supplied.
Undefined == "<undefined>"

\* JavaScript truthiness of an optional string: undefined and "" are falsy.
Falsy(x) == x = Undefined \/ x = ""

\* x || d on optional strings.
OrElse(x, d) == IF Falsy(x) THEN d ELSE x

RECURSIVE Flatten(_)
\* The concatenation of a sequence of sequences.
Flatten(ss) == IF ss = <<>> THEN <<>> ELSE Head(ss) \o Flatten(Tail(ss))

\* The sequences over S of length at most n.
SeqsUpTo(S, n) == UNION {[1..k -> S] : k \in 0..n}

(***************************************************************************)
(* Realtime client: values.                                                *)
(***************************************************************************)
Kinds == {"db", "broadcast", "presence"}

\* The optional callbacks each listen* call accepts.
CallbacksOf(kind) ==
    CASE kind = "db" -> {"onConnect", "onConnectError", "onDbChange"}
      [] kind = "broadcast" -> {"onConnect", "onConnectError", "onReceiveMessage"}
      [] kind = "presence" -> {"onConnect", "onConnectError", "onReceivePresenceState",
                                "onPresenceJoin", "onPresenceLeave"}

\* The topic each listen* call joins (projectId and channel name are fixed).
TopicOf(kind) ==
    CASE kind = "db" -> "db:{projectId}"
      [] kind = "broadcast" -> "broadcast:{projectId}:{channelName}"
      [] kind = "presence" -> "presence:{projectId}"

\* The error payloads a refused join can carry.
JoinErrors == {"e1", "e2"}
Users == {"u1", "u2"}
\* PresenceUser records, named by their online_at value.
MetaLists == {<<>>, <<"t1">>, <<"t2", "t1">>}

\* PresenceState: Record<string, {metas}>, as the sequence of its entries in
\* Object.entries order (the insertion order of the keys).
\* One user with any of the lists, or two users, in either order, each with
\* an empty list or a list of one.
PresenceStates ==
    {<<>>}
    \cup {<< <<u, m>> >> : u \in Users, m \in MetaLists}
    \cup {<< <<e[1], e[2]>>, <<e[3], e[4]>> >> :
            e \in {x \in Users \X MetaLists \X Users \X MetaLists :
                        x[1] # x[3] /\ Len(x[2]) <= 1 /\ Len(x[4]) <= 1}}

PresenceDiffs == [joins : PresenceStates, leaves : PresenceStates]

\* The keys of a PresenceState.
KeysOf(state) == {state[i][1] : i \in 1..Len(state)}

\* The database changes and broadcast payloads the server can send.
DbChanges == {"INSERT", "DELETE"}
Payloads == {"p1", "p2"}

\* What a handler can do: call the phoenix socket or channel, invoke one of the
\* caller's callbacks, throw.  Each handler run is also counted under the
\* name of what started it.
Tags ==
    {"socket.connect", "socket.channel", "channel.join", "channel.on",
     "channel.leave", "socket.disconnect", "channel.push", "throw",
     "onConnect", "onConnectError", "onDbChange", "onReceiveMessage",
     "onReceivePresenceState", "onPresenceJoin", "onPresenceLeave",
     "listen", "phx_reply", "pg_change", "message", "presence_state",
     "presence_diff", "disconnect()", "broadcast()"}

(***************************************************************************)
(* Realtime client: one connection.  sock and chan are the states of the   *)
(* phoenix socket and channel held in the closure; closes counts the times *)
(* the socket went from open to closed; last is what the handler that ran  *)
(* last did, in order; ev is what started that handler; count counts every *)
(* tag over the connection's life.                                         *)
(***************************************************************************)
NewConn(kind, opts) ==
    [kind |-> kind, opts |-> opts, sock |-> "none", chan |-> "none",
     topic |-> "", handlers |-> {}, closes |-> 0, leaveOutcome |-> "none",
     count |-> [t \in Tags |-> 0], last |-> <<>>, ev |-> <<"none">>,
     reported |-> {}]

\* One step of a handler: entry is <<tag, arguments...>>.
Do(c, entry) ==
    [c EXCEPT !.last = Append(@, entry), !.count[entry[1]] = @ + 1]

\* The users of the snapshots a handler passed to onReceivePresenceState.
SnapshotUsers(trace) ==
    UNION {KeysOf(trace[j][2]) :
            j \in {k \in 1..Len(trace) : trace[k][1] = "onReceivePresenceState"}}

\* A handler starts: ev is <<tag, arguments...>>.  reported keeps the users
\* of the snapshots the earlier handlers passed to the caller.
Begin(c, ev) ==
    [c EXCEPT !.last = <<>>, !.ev = ev, !.count[ev[1]] = @ + 1,
              !.reported = @ \cup SnapshotUsers(c.last)]

\* new Socket(socketUrl, {params}); the socket is not yet connected.
CreateWebsocket(c) == [c EXCEPT !.sock = "created"]

\* socket.connect()
SocketConnect(c) == [Do(c, <<"socket.connect">>) EXCEPT !.sock = "open"]

\* socket.channel(topic)
SocketChannel(c, topic) ==
    [Do(c, <<"socket.channel", topic>>) EXCEPT !.chan = "closed", !.topic = topic]

\* channel.join()
ChannelJoin(c) == [Do(c, <<"channel.join">>) EXCEPT !.chan = "joining"]

\* channel.on(event, callback)
ChannelOn(c, event) ==
    [Do(c, <<"channel.on", event>>) EXCEPT !.handlers = @ \cup {event}]

\* channel.leave(): the channel stops delivering events at once; the outcome
\* of the leave arrives later.
ChannelLeave(c) == [Do(c, <<"channel.leave">>) EXCEPT !.chan = "leaving"]

\* socket.disconnect(): closes the connection if there is one.
SocketDisconnect(c) ==
    [Do(c, <<"socket.disconnect">>) EXCEPT
        !.sock = "closed",
        !.closes = IF c.sock = "open" THEN @ + 1 ELSE @]

\* channel.push(event, payload)
ChannelPush(c, event, payload) == Do(c, <<"channel.push", event, payload>>)

\* A call of a callback without the ?. test: calling an omitted callback
\* throws a TypeError.
InvokeUnguarded(c, name, args) ==
    IF name \in c.opts THEN Do(c, <<name>> \o args)
    ELSE Do(c, <<"throw", "TypeError: not a function">>)

\* callback?.(args): the callback is invoked when the caller supplied it.
Invoke(c, name, args) == IF name \in c.opts THEN Do(c, <<name>> \o args) ELSE c

\* throw new Error(message)
Throw(c, message) == Do(c, <<"throw", message>>)

(***************************************************************************)
(* listenToDbChanges                                                       *)
(***************************************************************************)
ListenToDbChanges(opts) ==
    LET c0 == Begin(NewConn("db", opts), <<"listen">>)
        c1 == SocketConnect(CreateWebsocket(c0))
        c2 == SocketChannel(c1, TopicOf("db"))
        c3 == ChannelJoin(c2)
    IN  ChannelOn(c3, "pg_change")

\* .receive("ok", ...)
DbJoinOk(c) == Invoke(c, "onConnect", <<>>)

\* A variant that asks for the join again after a refusal.
DbJoinErrorRejoin(c, error) ==
    Throw(ChannelJoin(Invoke(c, "onConnectError", <<error>>)),
          "Unable to connect to the db changes websocket channel.")

\* .receive("error", ...)
DbJoinError(c, error) ==
    Throw(Invoke(c, "onConnectError", <<error>>),
          "Unable to connect to the db changes websocket channel.")

\* channel.on("pg_change", ...)
DbOnPgChange(c, payload) == Invoke(c, "onDbChange", <<payload>>)

\* A variant that tears down only a joined connection.
DbDisconnectWhenJoined(c) ==
    IF c.chan = "joined" THEN SocketDisconnect(ChannelLeave(c)) ELSE c

\* disconnect
DbDisconnect(c) == SocketDisconnect(ChannelLeave(c))

(***************************************************************************)
(* listenForBroadcasts                                                     *)
(***************************************************************************)
ListenForBroadcasts(opts) ==
    LET c0 == Begin(NewConn("broadcast", opts), <<"listen">>)
        c1 == SocketConnect(CreateWebsocket(c0))
        c2 == SocketChannel(c1, TopicOf("broadcast"))
        c3 == ChannelJoin(c2)
    IN  ChannelOn(c3, "message")

\* .receive("ok", ...)
BroadcastJoinOk(c) == Invoke(c, "onConnect", <<>>)

\* .receive("error", ...)
BroadcastJoinError(c, error) ==
    Throw(Invoke(c, "onConnectError", <<error>>),
          "Unable to connect to the broadcast websocket channel.")

\* channel.on("message", ...)
BroadcastOnMessage(c, payload) == Invoke(c, "onReceiveMessage", <<payload>>)

\* A broadcast that pushes only on a joined channel.
BroadcastPushWhenJoined(c, payload) ==
    IF c.chan = "joined" THEN ChannelPush(c, "message", payload) ELSE c

\* broadcast
BroadcastPush(c, payload) == ChannelPush(c, "message", payload)

\* A variant that closes the socket before it leaves the channel.
BroadcastDisconnectCloseFirst(c) == ChannelLeave(SocketDisconnect(c))

\* disconnect
BroadcastDisconnect(c) == SocketDisconnect(ChannelLeave(c))

(***************************************************************************)
(* listenToPresenceChanges                                                 *)
(***************************************************************************)
ListenToPresenceChanges(opts) ==
    LET c0 == Begin(NewConn("presence", opts), <<"listen">>)
        c1 == SocketConnect(CreateWebsocket(c0))
        c2 == SocketChannel(c1, TopicOf("presence"))
        c3 == ChannelJoin(c2)
        c4 == ChannelOn(c3, "presence_state")
    IN  ChannelOn(c4, "presence_diff")

\* .receive("ok", ...)
PresenceJoinOk(c) == Invoke(c, "onConnect", <<>>)

\* A variant that throws before it reports to the caller.
PresenceJoinErrorThrowFirst(c, error) ==
    Throw(c, "Unable to connect to the presence websocket channel.")

\* .receive("error", ...)
PresenceJoinError(c, error) ==
    Throw(Invoke(c, "onConnectError", <<error>>),
          "Unable to connect to the presence websocket channel.")

\* channel.on("presence_state", ...)
PresenceOnState(c, state) == Invoke(c, "onReceivePresenceState", <<state>>)

\* A variant without the check of metas.length.
ReportUnchecked(c, callback, entry) ==
    Invoke(c, callback,
           <<entry[1], IF Len(entry[2]) > 0 THEN entry[2][1] ELSE Undefined>>)

\* if (metas.length > 0) callback?.(userId, metas[0])
ReportFirstMeta(c, callback, entry) ==
    IF Len(entry[2]) > 0 THEN Invoke(c, callback, <<entry[1], entry[2][1]>>) ELSE c

RECURSIVE ForEachEntry(_, _, _)
\* Object.entries(state).forEach(([userId, {metas}]) => ...)
ForEachEntry(c, callback, state) ==
    IF state = <<>> THEN c
    ELSE ForEachEntry(ReportFirstMeta(c, callback, Head(state)), callback, Tail(state))

\* A combined state that keeps the entries of leaves next to those of joins.
CombinedStateWithLeaves(diff) == diff.joins \o diff.leaves

\* const combinedState = { ...diff.joins }
CombinedState(diff) == diff.joins

\* A variant that syncs the state before it reports the leaves.
PresenceOnDiffStateEarly(c, diff) ==
    LET c1 == ForEachEntry(c, "onPresenceJoin", diff.joins)
        c2 == Invoke(c1, "onReceivePresenceState", <<CombinedState(diff)>>)
    IN  ForEachEntry(c2, "onPresenceLeave", diff.leaves)

\* channel.on("presence_diff", ...)
PresenceOnDiff(c, diff) ==
    LET c1 == ForEachEntry(c, "onPresenceJoin", diff.joins)
        c2 == ForEachEntry(c1, "onPresenceLeave", diff.leaves)
    IN  Invoke(c2, "onReceivePresenceState", <<CombinedState(diff)>>)

\* disconnect
PresenceDisconnect(c) == SocketDisconnect(ChannelLeave(c))

(***************************************************************************)
(* The connection object each listen* call returns, by kind.               *)
(***************************************************************************)
ListenBody(kind, opts) ==
    CASE kind = "db" -> ListenToDbChanges(opts)
      [] kind = "broadcast" -> ListenForBroadcasts(opts)
      [] kind = "presence" -> ListenToPresenceChanges(opts)

JoinOkBody(c) ==
    CASE c.kind = "db" -> DbJoinOk(c)
      [] c.kind = "broadcast" -> BroadcastJoinOk(c)
      [] c.kind = "presence" -> PresenceJoinOk(c)

JoinErrorBody(c, error) ==
    CASE c.kind = "db" -> DbJoinError(c, error)
      [] c.kind = "broadcast" -> BroadcastJoinError(c, error)
      [] c.kind = "presence" -> PresenceJoinError(c, error)

DisconnectBody(c) ==
    CASE c.kind = "db" -> DbDisconnect(c)
      [] c.kind = "broadcast" -> BroadcastDisconnect(c)
      [] c.kind = "presence" -> PresenceDisconnect(c)

\* The inbound events a connection has handled.
EventsHandled(c) ==
    c.count["pg_change"] + c.count["message"]
        + c.count["presence_state"] + c.count["presence_diff"]

\* The channel delivers an event to the handlers registered for it while the
\* channel is joined.
Delivers(c, event) ==
    /\ c.chan = "joined"
    /\ event \in c.handlers
    /\ EventsHandled(c) < MaxEvents

(***************************************************************************)
(* Realtime client: actions.                                               *)
(***************************************************************************)
Others == UNCHANGED <<auth, storage>>

\* The caller calls listenToDbChanges, listenForBroadcasts or
\* listenToPresenceChanges.
Listen(kind, opts) ==
    /\ conns' = Append(conns, ListenBody(kind, opts))
    /\ Others

\* The server accepts the join.
JoinOk(i) ==
    /\ conns[i].chan = "joining"
    /\ conns[i].sock = "open"
    /\ conns' = [conns EXCEPT ![i] =
            JoinOkBody([Begin(@, <<"phx_reply", "ok", "">>) EXCEPT !.chan = "joined"])]
    /\ Others

\* The server refuses the join.
JoinError(i, error) ==
    /\ conns[i].chan = "joining"
    /\ conns[i].sock = "open"
    /\ conns' = [conns EXCEPT ![i] =
            JoinErrorBody([Begin(@, <<"phx_reply", "error", error>>) EXCEPT
                              !.chan = "errored"], error)]
    /\ Others

\* A row-change notification arrives.
PgChange(i, payload) ==
    /\ Delivers(conns[i], "pg_change")
    /\ conns' = [conns EXCEPT ![i] = DbOnPgChange(Begin(@, <<"pg_change", payload>>), payload)]
    /\ Others

\* A broadcast message arrives.
Message(i, payload) ==
    /\ Delivers(conns[i], "message")
    /\ conns' = [conns EXCEPT ![i] =
            BroadcastOnMessage(Begin(@, <<"message", payload>>), payload)]
    /\ Others

\* A full presence snapshot arrives.
PresenceStateEvent(i, state) ==
    /\ Delivers(conns[i], "presence_state")
    /\ conns' = [conns EXCEPT ![i] =
            PresenceOnState(Begin(@, <<"presence_state", state>>), state)]
    /\ Others

\* A presence diff arrives.
PresenceDiffEvent(i, diff) ==
    /\ Delivers(conns[i], "presence_diff")
    /\ conns' = [conns EXCEPT ![i] =
            PresenceOnDiff(Begin(@, <<"presence_diff", diff>>), diff)]
    /\ Others

\* The caller calls broadcast(payload) on a broadcast connection.
Broadcast(i, payload) ==
    /\ conns[i].kind = "broadcast"
    /\ conns[i].count["broadcast()"] < MaxPushes
    /\ conns' = [conns EXCEPT ![i] =
            BroadcastPush(Begin(@, <<"broadcast()", payload>>), payload)]
    /\ Others

\* A disconnect() of connections that share one socket: closing it closes it
\* for every connection.
DisconnectSharedSocket(i) ==
    /\ conns[i].count["disconnect()"] < MaxDisconnects
    /\ conns' = [j \in 1..Len(conns) |->
            IF j = i THEN DisconnectBody(Begin(conns[j], <<"disconnect()">>))
            ELSE [conns[j] EXCEPT !.sock = "closed"]]
    /\ Others

\* The caller calls disconnect() on a connection.
Disconnect(i) ==
    /\ conns[i].count["disconnect()"] < MaxDisconnects
    /\ conns' = [conns EXCEPT ![i] = DisconnectBody(Begin(@, <<"disconnect()">>))]
    /\ Others

\* The leave of a channel completes, with an "ok" or with a timeout.
LeaveDone(i, outcome) ==
    /\ conns[i].chan = "leaving"
    /\ conns' = [conns EXCEPT ![i].chan = "closed", ![i].leaveOutcome = outcome]
    /\ Others

(***************************************************************************)
(* Auth client.  key is the authVerifyKey of the configuration; last is    *)
(* what the last verify call did, in order: its call of jwt.verify, if     *)
(* any, and then either the result it returned or the error it threw.      *)
(***************************************************************************)
Null == "null"

AuthKeys == {Undefined, "", "k1", "k2"}
AuthTokens == {Undefined, "", "tokenA", "tokenB"}

\* What jwt.verify can do with a token: return its payload, throw one of its
\* errors, or throw a value that is no Error.
JwtOutcomes == {"payload", "JsonWebTokenError", "TokenExpiredError", "nonError"}

NewAuthClient(authVerifyKey) ==
    [key |-> authVerifyKey, calls |-> 0, jwtCalls |-> 0, token |-> Undefined,
     last |-> <<>>]

\* `-----BEGIN PUBLIC KEY-----\n${authVerifyKey}\n-----END PUBLIC KEY-----`
PublicKey(authVerifyKey) ==
    <<"-----BEGIN PUBLIC KEY-----", authVerifyKey, "-----END PUBLIC KEY-----">>

\* The error verify returns when jwt.verify threw.
VerifyError(outcome) ==
    CASE outcome = "JsonWebTokenError" ->
            "An error occurred while verifying the auth token. JsonWebTokenError"
      [] outcome = "TokenExpiredError" ->
            "An error occurred while verifying the auth token. TokenExpiredError"
      [] OTHER -> "An unexpected error occurred while verifying the auth token."

\* A variant that looks for the verification key first.
VerifyKeyFirst(authVerifyKey, authToken, outcome) ==
    IF Falsy(authVerifyKey)
    THEN << <<"throw", "Cannot verify the auth token because no auth verification key was provided to dabblebase client.">> >>
    ELSE IF Falsy(authToken)
    THEN << <<"return", Null, "The user is not authenticated.">> >>
    ELSE << <<"jwt.verify", authToken, PublicKey(authVerifyKey), "RS256", outcome>> >>
         \o (IF outcome = "payload"
             THEN << <<"return", "subject", Null>> >>
             ELSE << <<"return", Null, VerifyError(outcome)>> >>)

\* A variant without the try/catch around jwt.verify.
VerifyNoCatch(authVerifyKey, authToken, outcome) ==
    IF Falsy(authToken)
    THEN << <<"return", Null, "The user is not authenticated.">> >>
    ELSE IF Falsy(authVerifyKey)
    THEN << <<"throw", "Cannot verify the auth token because no auth verification key was provided to dabblebase client.">> >>
    ELSE << <<"jwt.verify", authToken, PublicKey(authVerifyKey), "RS256", outcome>> >>
         \o (IF outcome = "payload"
             THEN << <<"return", "subject", Null>> >>
             ELSE << <<"throw", outcome>> >>)

\* verify(authToken); outcome is what jwt.verify does if it is called, and is
\* kept with the call.
VerifyBody(authVerifyKey, authToken, outcome) ==
    IF Falsy(authToken)
    THEN << <<"return", Null, "The user is not authenticated.">> >>
    ELSE IF Falsy(authVerifyKey)
    THEN << <<"throw", "Cannot verify the auth token because no auth verification key was provided to dabblebase client.">> >>
    ELSE << <<"jwt.verify", authToken, PublicKey(authVerifyKey), "RS256", outcome>> >>
         \o (IF outcome = "payload"
             THEN << <<"return", "subject", Null>> >>
             ELSE << <<"return", Null, VerifyError(outcome)>> >>)

\* The caller calls verify(authToken).
Verify(authToken, outcome) ==
    /\ auth.calls < MaxVerifyCalls
    /\ LET trace == VerifyBody(auth.key, authToken, outcome)
       IN  auth' = [auth EXCEPT
                !.calls = @ + 1,
                !.token = authToken,
                !.last = trace,
                !.jwtCalls = @ + Cardinality({j \in 1..Len(trace) : trace[j][1] = "jwt.verify"})]
    /\ UNCHANGED <<conns, storage>>

(***************************************************************************)
(* Storage client.  Paths are sequences of characters; projectToken is the *)
(* token of the configuration; op is the last call and its arguments; last *)
(* is what that call did, in order: the form data it built, the request it *)
(* handed to fetch, the reads of the response, and the value it returned   *)
(* or the error it threw; fetches counts the requests of all calls; again  *)
(* tells, when the last call repeats the call before it, whether it did    *)
(* the same as that call.                                                  *)
(***************************************************************************)
PathChars == {"a", "/", " "}
Paths == SeqsUpTo(PathChars, MaxPathLen)
Files == {Undefined, "file1"}
\* Project tokens; the tokens have no character that encodeURIComponent changes.
ProjectTokens == {Undefined, "", "ptoken"}

\* The responses of the server: ok is status 200..299.
Responses ==
    {[ok |-> TRUE, status |-> 200], [ok |-> FALSE, status |-> 403],
     [ok |-> FALSE, status |-> 500]}

NewStorageClient(projectToken) ==
    [projectToken |-> projectToken, calls |-> 0, fetches |-> 0,
     op |-> <<"none">>, last |-> <<>>, again |-> "no"]

\* encodeURIComponent of one character.
EncodeChar(ch) ==
    CASE ch = "/" -> <<"%", "2", "F">>
      [] ch = " " -> <<"%", "2", "0">>
      [] OTHER -> <<ch>>

\* encodeURIComponent(str)
EncodeURIComponent(str) == Flatten([j \in 1..Len(str) |-> EncodeChar(str[j])])

RECURSIVE Split(_, _)
\* str.split(sep): the segments of str between the separators.
Split(str, sep) ==
    IF \A j \in 1..Len(str) : str[j] # sep THEN <<str>>
    ELSE LET k == CHOOSE j \in 1..Len(str) :
                    str[j] = sep /\ \A m \in 1..(j - 1) : str[m] # sep
         IN  <<SubSeq(str, 1, k - 1)>> \o Split(SubSeq(str, k + 1, Len(str)), sep)

RECURSIVE Join(_, _)
\* segments.join(sep)
Join(segments, sep) ==
    IF Len(segments) = 1 THEN segments[1]
    ELSE segments[1] \o <<sep>> \o Join(Tail(segments), sep)

\* getAuthHeaders()
GetAuthHeaders(projectToken) ==
    {<<"Content-Type", "application/json">>}
    \cup (IF ~Falsy(projectToken) THEN {<<"X-Project-Token", projectToken>>} ELSE {})

\* A variant that builds the form data before it validates its inputs.
UploadBuildsFirst(projectToken, file, path, response) ==
    << <<"new FormData">>, <<"formData.append", "file", file>> >>
    \o (IF file = Undefined
        THEN << <<"throw", "A file must be provided for upload.">> >>
        ELSE IF Len(path) = 0
        THEN << <<"throw", "A destination path must be provided for upload.">> >>
        ELSE << <<"fetch", "POST",
                  <<"{dabblebaseUrl}/api/project/{projectId}/storage/upload?path=">>
                      \o EncodeURIComponent(path),
                  {<<"X-Project-Token", OrElse(projectToken, "")>>},
                  <<"file", file>>, response>> >>
             \o (IF ~response.ok
                 THEN << <<"response.text">>, <<"throw", "Direct upload failed", response.status>> >>
                 ELSE << <<"response.json">>, <<"return", "{dabblebaseUrl}{result.url}">> >>))

\* upload({file, path}); response is the server's answer if a request is made,
\* kept as the last part of the fetch entry.
UploadBody(projectToken, file, path, response) ==
    IF file = Undefined
    THEN << <<"throw", "A file must be provided for upload.">> >>
    ELSE IF Len(path) = 0
    THEN << <<"throw", "A destination path must be provided for upload.">> >>
    ELSE << <<"new FormData">>, <<"formData.append", "file", file>>,
            <<"fetch", "POST",
              <<"{dabblebaseUrl}/api/project/{projectId}/storage/upload?path=">>
                  \o EncodeURIComponent(path),
              {<<"X-Project-Token", OrElse(projectToken, "")>>},
              <<"file", file>>, response>> >>
         \o (IF ~response.ok
             THEN << <<"response.text">>, <<"throw", "Direct upload failed", response.status>> >>
             ELSE << <<"response.json">>, <<"return", "{dabblebaseUrl}{result.url}">> >>)

\* A variant that sends the request once more when the answer is not ok.
ListRetriesOnce(projectToken, response) ==
    << <<"fetch", "GET", <<"{dabblebaseUrl}/api/project/{projectId}/storage/list">>,
         GetAuthHeaders(projectToken), <<>>, response>> >>
    \o (IF ~response.ok
        THEN << <<"fetch", "GET", <<"{dabblebaseUrl}/api/project/{projectId}/storage/list">>,
                  GetAuthHeaders(projectToken), <<>>, response>>,
                <<"response.text">>, <<"throw", "Failed to list files", response.status>> >>
        ELSE << <<"response.json">>, <<"return", "{files}">> >>)

\* list()
ListBody(projectToken, response) ==
    << <<"fetch", "GET", <<"{dabblebaseUrl}/api/project/{projectId}/storage/list">>,
         GetAuthHeaders(projectToken), <<>>, response>> >>
    \o (IF ~response.ok
        THEN << <<"response.text">>, <<"throw", "Failed to list files", response.status>> >>
        ELSE << <<"response.json">>, <<"return", "{files}">> >>)

\* A variant that encodes the whole path at once, as upload and delete do.
GetUrlEncodesWhole(projectToken, path) ==
    IF Len(path) = 0
    THEN << <<"throw", "A path must be provided for view URL.">> >>
    ELSE << <<"return",
              <<"{dabblebaseUrl}/api/project/{projectId}/storage/view/">>
                  \o EncodeURIComponent(path)
                  \o <<"?X-Project-Token=", OrElse(projectToken, "")>> >> >>

\* getUrl(path)
GetUrlBody(projectToken, path) ==
    IF Len(path) = 0
    THEN << <<"throw", "A path must be provided for view URL.">> >>
    ELSE << <<"return",
              <<"{dabblebaseUrl}/api/project/{projectId}/storage/view/">>
                  \o Join([j \in 1..Len(Split(path, "/")) |->
                              EncodeURIComponent(Split(path, "/")[j])], "/")
                  \o <<"?X-Project-Token=", OrElse(projectToken, "")>> >> >>

\* A variant that does not validate its path.
DeleteUnchecked(projectToken, path, response) ==
    << <<"fetch", "DELETE",
         <<"{dabblebaseUrl}/api/project/{projectId}/storage/delete?path=">>
             \o EncodeURIComponent(path),
         GetAuthHeaders(projectToken), <<>>, response>> >>
    \o (IF ~response.ok
        THEN << <<"throw", "Failed to delete the file", response.status>> >>
        ELSE << <<"return", Undefined>> >>)

\* delete({path})
DeleteBody(projectToken, path, response) ==
    IF Len(path) = 0
    THEN << <<"throw", "A destination path must be provided for deletion.">> >>
    ELSE << <<"fetch", "DELETE",
              <<"{dabblebaseUrl}/api/project/{projectId}/storage/delete?path=">>
                  \o EncodeURIComponent(path),
              GetAuthHeaders(projectToken), <<>>, response>> >>
         \o (IF ~response.ok
             THEN << <<"throw", "Failed to delete the file", response.status>> >>
             ELSE << <<"return", Undefined>> >>)

\* A call of the storage client ran: op is the call, trace what it did.
Ran(op, trace) ==
    /\ storage.calls < MaxStorageCalls
    /\ storage' = [storage EXCEPT
            !.calls = @ + 1,
            !.op = op,
            !.last = trace,
            !.fetches = @ + Cardinality({j \in 1..Len(trace) : trace[j][1] = "fetch"}),
            !.again = IF op # storage.op THEN "no"
                      ELSE IF trace = storage.last THEN "same" ELSE "differs"]
    /\ UNCHANGED <<conns, auth>>

\* The caller calls upload({file, path}).
Upload(file, path, response) ==
    Ran(<<"upload", file, path>>, UploadBody(storage.projectToken, file, path, response))

\* The caller calls list().
List(response) == Ran(<<"list">>, ListBody(storage.projectToken, response))

\* The caller calls getUrl(path).
GetUrl(path) == Ran(<<"getUrl", path>>, GetUrlBody(storage.projectToken, path))

\* The caller calls delete({path}).
Delete(path, response) ==
    Ran(<<"delete", path>>, DeleteBody(storage.projectToken, path, response))

(***************************************************************************)
(* The life of one realtime connection, of any kind and with any subset of *)
(* its callbacks supplied.  A connection's socket and channel live in the  *)
(* closure of the listen* call that built it, so one connection's life is  *)
(* explored on its own.                                                    *)
(***************************************************************************)
AuthInit == auth = NewAuthClient(Undefined)
StorageInit == storage = NewStorageClient(Undefined)

\* The presence payloads used where the connections' lifecycle is explored.
SomeStates == {<<>>, << <<"u1", <<"t1">> >> >>}
SomeDiffs ==
    {[joins |-> << <<"u1", <<"t1">> >> >>, leaves |-> <<>>],
     [joins |-> << <<"u2", <<>> >> >>, leaves |-> << <<"u1", <<"t2", "t1">> >> >>]}

Init ==
    /\ conns = <<>>
    /\ AuthInit
    /\ StorageInit

Next ==
    \/ \E kind \in Kinds : \E opts \in SUBSET CallbacksOf(kind) :
            conns = <<>> /\ Listen(kind, opts)
    \/ \E i \in 1..Len(conns) : JoinOk(i)
    \/ \E i \in 1..Len(conns) : \E error \in JoinErrors : JoinError(i, error)
    \/ \E i \in 1..Len(conns) : \E payload \in DbChanges : PgChange(i, payload)
    \/ \E i \in 1..Len(conns) : \E payload \in Payloads : Message(i, payload)
    \/ \E i \in 1..Len(conns) : \E state \in SomeStates : PresenceStateEvent(i, state)
    \/ \E i \in 1..Len(conns) : \E diff \in SomeDiffs : PresenceDiffEvent(i, diff)
    \/ \E i \in 1..Len(conns) : \E payload \in Payloads : Broadcast(i, payload)
    \/ \E i \in 1..Len(conns) : Disconnect(i)
    \/ \E i \in 1..Len(conns) : \E outcome \in {"ok", "timeout"} : LeaveDone(i, outcome)

Spec == Init /\ [][Next]_vars

(***************************************************************************)
(* The presence connection with all its callbacks supplied, under every    *)
(* presence snapshot of PresenceStates and every diff of PresenceDiffs.    *)
(***************************************************************************)
NextPresence ==
    \/ conns = <<>> /\ Listen("presence", CallbacksOf("presence"))
    \/ \E i \in 1..Len(conns) : JoinOk(i)
    \/ \E i \in 1..Len(conns) : \E state \in PresenceStates : PresenceStateEvent(i, state)
    \/ \E i \in 1..Len(conns) : \E diff \in PresenceDiffs : PresenceDiffEvent(i, diff)
    \/ \E i \in 1..Len(conns) : Disconnect(i)

SpecPresence == Init /\ [][NextPresence]_vars

(***************************************************************************)
(* Reading a handler's trace.                                              *)
(***************************************************************************)
\* The positions of a trace that carry the tag.
Positions(trace, tag) == {j \in 1..Len(trace) : trace[j][1] = tag}

\* The positions of a trace where callback(userId, meta) is invoked.
ReportsOf(trace, callback, userId) ==
    {j \in Positions(trace, callback) : trace[j][2] = userId}

\* The n-th connection, for the predicates below.
Conn(i) == conns[i]
ConnIds == 1..Len(conns)

(***************************************************************************)
(* C1: calling disconnect() twice (or more) on a connection of any kind,   *)
(* in any state, never throws, and over all the calls the socket goes from *)
(* open to closed exactly once.                                            *)
(***************************************************************************)
DisconnectTwiceClosesOnce ==
    \A i \in ConnIds :
        /\ Conn(i).ev[1] = "disconnect()" => Positions(Conn(i).last, "throw") = {}
        /\ Conn(i).count["disconnect()"] >= 1 =>
                Conn(i).closes = 1 /\ Conn(i).sock = "closed"
        /\ Conn(i).count["disconnect()"] = 0 => Conn(i).closes = 0

DisconnectedTwice ==
    \E i \in ConnIds :
        /\ Conn(i).count["disconnect()"] = 2
        /\ Conn(i).ev[1] = "disconnect()"
        /\ Conn(i).closes = 1
        /\ Conn(i).count["throw"] = 1

(***************************************************************************)
(* C2: a refused join invokes onConnectError (when supplied) with the join *)
(* error and then throws, and onConnect is not invoked; an accepted join   *)
(* invokes onConnect (when supplied) and neither invokes onConnectError    *)
(* nor throws.                                                             *)
(***************************************************************************)
JoinReplyCallbacks ==
    \A i \in ConnIds :
        LET c == Conn(i)
            n == Len(c.last)
        IN  /\ (c.ev[1] = "phx_reply" /\ c.ev[2] = "error") =>
                /\ n >= 1 /\ c.last[n][1] = "throw"
                /\ Positions(c.last, "throw") = {n}
                /\ Positions(c.last, "onConnect") = {}
                /\ "onConnectError" \in c.opts =>
                        /\ n = 2
                        /\ c.last[1][1] = "onConnectError"
                        /\ c.last[1][2] = c.ev[3]
            /\ (c.ev[1] = "phx_reply" /\ c.ev[2] = "ok") =>
                /\ Positions(c.last, "throw") = {}
                /\ Positions(c.last, "onConnectError") = {}
                /\ "onConnect" \in c.opts => c.last = << <<"onConnect">> >>
            /\ c.chan = "errored" => c.count["onConnect"] = 0 /\ c.count["throw"] = 1
            /\ c.chan = "joined" => c.count["onConnectError"] = 0 /\ c.count["throw"] = 0
            /\ c.count["onConnect"] + c.count["throw"] <= 1

JoinRefused ==
    \E i \in ConnIds :
        /\ Conn(i).kind = "presence"
        /\ Conn(i).ev = <<"phx_reply", "error", "e2">>
        /\ Conn(i).last[1] = <<"onConnectError", "e2">>
        /\ Conn(i).last[2][1] = "throw"

(***************************************************************************)
(* C3: every disconnect() calls channel.leave() and then                   *)
(* socket.disconnect(), in that order and nothing else, whatever the state *)
(* of the connection (joining, joined, join failed, already disconnected)  *)
(* and whether or not the leave has completed.                             *)
(***************************************************************************)
DisconnectLeavesThenCloses ==
    \A i \in ConnIds :
        LET c == Conn(i)
        IN  /\ c.ev[1] = "disconnect()" =>
                c.last = << <<"channel.leave">>, <<"socket.disconnect">> >>
            /\ c.count["channel.leave"] = c.count["disconnect()"]
            /\ c.count["socket.disconnect"] = c.count["disconnect()"]
            /\ c.count["disconnect()"] >= 1 =>
                c.sock = "closed" /\ c.chan \in {"leaving", "closed"}

DisconnectedAfterJoinFailure ==
    \E i \in ConnIds :
        /\ Conn(i).ev[1] = "disconnect()"
        /\ Conn(i).count["throw"] = 1
        /\ Conn(i).count["disconnect()"] = 2
        /\ Conn(i).leaveOutcome = "timeout"
        /\ Conn(i).sock = "closed"

(***************************************************************************)
(* C4: the client calls socket.connect() and channel.join() exactly once   *)
(* per connection, both in the listen* call; no later handler calls them,  *)
(* so a failed join stays failed and a disconnected connection stays       *)
(* disconnected.                                                           *)
(***************************************************************************)
OpensAndJoinsOnce ==
    \A i \in ConnIds :
        LET c == Conn(i)
        IN  /\ c.count["listen"] = 1
            /\ c.count["socket.connect"] = 1
            /\ c.count["channel.join"] = 1
            /\ c.ev[1] = "listen" =>
                /\ Len(c.last) >= 3
                /\ c.last[1][1] = "socket.connect"
                /\ c.last[3][1] = "channel.join"
                /\ c.sock = "open" /\ c.chan = "joining"
            /\ c.ev[1] # "listen" =>
                Positions(c.last, "socket.connect") \cup Positions(c.last, "channel.join") = {}
            /\ c.count["throw"] >= 1 => c.chan \in {"errored", "leaving", "closed"}
            /\ c.count["disconnect()"] >= 1 =>
                c.sock = "closed" /\ c.chan \in {"leaving", "closed"}

StillFailedAfterDisconnect ==
    \E i \in ConnIds :
        /\ Conn(i).count["throw"] = 1
        /\ Conn(i).count["disconnect()"] >= 1
        /\ Conn(i).chan = "closed"
        /\ Conn(i).count["channel.join"] = 1

(***************************************************************************)
(* C5: on a presence diff, with the callbacks supplied, every entry of     *)
(* joins with a non-empty metadata list gives exactly one                  *)
(* onPresenceJoin(user, first entry), every entry of leaves with a         *)
(* non-empty list gives exactly one onPresenceLeave(user, first entry),    *)
(* and exactly one onReceivePresenceState follows them all, with a state   *)
(* that holds every user of joins.                                         *)
(***************************************************************************)
DiffCallbacks ==
    \A i \in ConnIds :
        LET c == Conn(i)
            n == Len(c.last)
            joins == c.ev[2].joins
            leaves == c.ev[2].leaves
            Reported(callback, entry) ==
                {j \in ReportsOf(c.last, callback, entry[1]) : c.last[j][3] = entry[2][1]}
            NonEmpty(state) == {k \in 1..Len(state) : Len(state[k][2]) > 0}
        IN  c.ev[1] = "presence_diff" =>
            /\ "onPresenceJoin" \in c.opts =>
                /\ \A k \in NonEmpty(joins) :
                        /\ Cardinality(ReportsOf(c.last, "onPresenceJoin", joins[k][1])) = 1
                        /\ Cardinality(Reported("onPresenceJoin", joins[k])) = 1
                /\ Cardinality(Positions(c.last, "onPresenceJoin"))
                        = Cardinality(NonEmpty(joins))
            /\ "onPresenceLeave" \in c.opts =>
                /\ \A k \in NonEmpty(leaves) :
                        /\ Cardinality(ReportsOf(c.last, "onPresenceLeave", leaves[k][1])) = 1
                        /\ Cardinality(Reported("onPresenceLeave", leaves[k])) = 1
                /\ Cardinality(Positions(c.last, "onPresenceLeave"))
                        = Cardinality(NonEmpty(leaves))
            /\ "onReceivePresenceState" \in c.opts =>
                /\ Positions(c.last, "onReceivePresenceState") = {n}
                /\ n >= 1
                /\ KeysOf(joins) \subseteq KeysOf(c.last[n][2])

DiffWithOneJoin ==
    \E i \in ConnIds :
        /\ Conn(i).ev[1] = "presence_diff"
        /\ Conn(i).ev[2] = [joins |-> << <<"u1", <<"t1">> >> >>, leaves |-> <<>>]
        /\ Len(Conn(i).last) = 2
        /\ Conn(i).last[1] = <<"onPresenceJoin", "u1", "t1">>
        /\ Conn(i).last[2][1] = "onReceivePresenceState"
        /\ "u1" \in KeysOf(Conn(i).last[2][2])

(***************************************************************************)
(* C6: on a presence diff, an entry of joins with an empty metadata list   *)
(* gives no onPresenceJoin for its user and an entry of leaves with an     *)
(* empty list gives no onPresenceLeave for its user, while the entries of  *)
(* the same diff with a non-empty list are reported.                       *)
(***************************************************************************)
EmptyMetasNotReported ==
    \A i \in ConnIds :
        LET c == Conn(i)
            joins == c.ev[2].joins
            leaves == c.ev[2].leaves
        IN  c.ev[1] = "presence_diff" =>
            /\ \A k \in 1..Len(joins) :
                /\ Len(joins[k][2]) = 0 =>
                        ReportsOf(c.last, "onPresenceJoin", joins[k][1]) = {}
                /\ (Len(joins[k][2]) > 0 /\ "onPresenceJoin" \in c.opts) =>
                        ReportsOf(c.last, "onPresenceJoin", joins[k][1]) # {}
            /\ \A k \in 1..Len(leaves) :
                /\ Len(leaves[k][2]) = 0 =>
                        ReportsOf(c.last, "onPresenceLeave", leaves[k][1]) = {}
                /\ (Len(leaves[k][2]) > 0 /\ "onPresenceLeave" \in c.opts) =>
                        ReportsOf(c.last, "onPresenceLeave", leaves[k][1]) # {}

DiffWithEmptyMetas ==
    \E i \in ConnIds :
        /\ Conn(i).ev[1] = "presence_diff"
        /\ Conn(i).ev[2] = [joins |-> << <<"u1", <<>> >>, <<"u2", <<"t1">> >> >>,
                            leaves |-> << <<"u2", <<>> >> >>]
        /\ ReportsOf(Conn(i).last, "onPresenceJoin", "u1") = {}
        /\ ReportsOf(Conn(i).last, "onPresenceJoin", "u2") = {1}
        /\ Positions(Conn(i).last, "onPresenceLeave") = {}

(***************************************************************************)
(* The auth client, built with any verification key, under any token and   *)
(* any behaviour of jwt.verify.                                            *)
(***************************************************************************)
InitAuth ==
    /\ conns = <<>>
    /\ \E key \in AuthKeys : auth = NewAuthClient(key)
    /\ StorageInit

NextAuth == \E authToken \in AuthTokens : \E outcome \in JwtOutcomes : Verify(authToken, outcome)

SpecAuth == InitAuth /\ [][NextAuth]_vars

(***************************************************************************)
(* The storage client, built with any project token, under any file, path  *)
(* and response.                                                           *)
(***************************************************************************)
InitStorage ==
    /\ conns = <<>>
    /\ AuthInit
    /\ \E projectToken \in ProjectTokens : storage = NewStorageClient(projectToken)

NextStorage ==
    \/ \E file \in Files : \E path \in Paths : \E response \in Responses :
            Upload(file, path, response)
    \/ \E response \in Responses : List(response)
    \/ \E path \in Paths : GetUrl(path)
    \/ \E path \in Paths : \E response \in Responses : Delete(path, response)

SpecStorage == InitStorage /\ [][NextStorage]_vars

VerifyErrors ==
    /\ (auth.calls >= 1 /\ ~Falsy(auth.token) /\ Falsy(auth.key)) =>
            /\ Len(auth.last) = 1
            /\ auth.last[1][1] = "throw"
    /\ (auth.calls >= 1 /\ ~Falsy(auth.token) /\ ~Falsy(auth.key)) =>
            /\ Len(auth.last) = 2
            /\ auth.last[1][1] = "jwt.verify"
            /\ auth.last[1][2] = auth.token
            /\ auth.last[1][3] = PublicKey(auth.key)
            /\ auth.last[2][1] = "return"
            /\ auth.last[1][5] # "payload" =>
                    auth.last[2][2] = Null /\ auth.last[2][3] # Null
            /\ auth.last[1][5] = "payload" =>
                    auth.last[2][2] # Null /\ auth.last[2][3] = Null
    /\ \A j \in Positions(auth.last, "return") :
            (auth.last[j][2] = Null) # (auth.last[j][3] = Null)

InvalidSignatureReturned ==
    /\ auth.key = "k1"
    /\ auth.token = "tokenA"
    /\ Len(auth.last) = 2
    /\ auth.last[1][5] = "JsonWebTokenError"
    /\ auth.last[2][1] = "return"
    /\ auth.last[2][2] = Null

(***************************************************************************)
(* C9: upload with an absent file or an empty path throws at once: it      *)
(* builds no form data and hands no request to fetch.                      *)
(***************************************************************************)
UploadPreconditions ==
    storage.op[1] = "upload" =>
        ((storage.op[2] = Undefined \/ Len(storage.op[3]) = 0) =>
            /\ Len(storage.last) = 1
            /\ storage.last[1][1] = "throw"
            /\ Positions(storage.last, "new FormData") = {}
            /\ Positions(storage.last, "formData.append") = {}
            /\ Positions(storage.last, "fetch") = {})

UploadWithEmptyPath ==
    /\ storage.op = <<"upload", "file1", <<>> >>
    /\ storage.last = << <<"throw", "A destination path must be provided for upload.">> >>

(***************************************************************************)
(* C10, as claimed: a storage call with a missing file, path or project    *)
(* token throws before any request is handed to fetch.                     *)
(***************************************************************************)
PathIsEmpty ==
    \/ storage.op[1] = "upload" /\ Len(storage.op[3]) = 0
    \/ storage.op[1] \in {"delete", "getUrl"} /\ Len(storage.op[2]) = 0

FileIsAbsent == storage.op[1] = "upload" /\ storage.op[2] = Undefined

TokenIsAbsent ==
    storage.op[1] \in {"upload", "list", "delete"} /\ Falsy(storage.projectToken)

ThrowsBeforeAnyRequest ==
    /\ Len(storage.last) = 1
    /\ storage.last[1][1] = "throw"
    /\ Positions(storage.last, "fetch") = {}

MissingPreconditionThrows ==
    (PathIsEmpty \/ FileIsAbsent \/ TokenIsAbsent) => ThrowsBeforeAnyRequest

(***************************************************************************)
(* C10, amended: a storage call with a missing file or path (upload        *)
(* without a file or with an empty path, delete and getUrl with an empty   *)
(* path) throws before any request is handed to fetch.  A missing project  *)
(* token is no precondition: with their file and path supplied, upload,    *)
(* list and delete hand exactly one request to fetch, upload with an empty *)
(* X-Project-Token header and list and delete without that header, and     *)
(* throw only when the response is not ok.                                 *)
(***************************************************************************)
MissingFileOrPathThrows ==
    /\ (PathIsEmpty \/ FileIsAbsent) => ThrowsBeforeAnyRequest
    /\ (TokenIsAbsent /\ ~PathIsEmpty /\ ~FileIsAbsent) =>
        \E j \in 1..Len(storage.last) :
            /\ Positions(storage.last, "fetch") = {j}
            /\ Positions(storage.last, "throw") \subseteq {Len(storage.last)}
            /\ \A k \in 1..(j - 1) : storage.last[k][1] # "throw"
            /\ storage.op[1] = "upload" =>
                    storage.last[j][4] = {<<"X-Project-Token", "">>}
            /\ storage.op[1] \in {"list", "delete"} =>
                    storage.last[j][4] = {<<"Content-Type", "application/json">>}

ListWithoutToken ==
    /\ storage.projectToken = Undefined
    /\ storage.op = <<"list">>
    /\ Positions(storage.last, "fetch") = {1}
    /\ Positions(storage.last, "throw") = {}

(***************************************************************************)
(* C11: getUrl with a non-empty path hands no request to fetch and returns *)
(* a URL whose path part is the path with every character but "/"          *)
(* percent-encoded and every "/" kept in place: split at "/", it gives the *)
(* encoded segments of the path, as many as the path has.  Two calls with  *)
(* the same path on one client return the same URL.                        *)
(***************************************************************************)
\* The part of a view URL between the route and the query string.
PathPart(url) == SubSeq(url, 2, Len(url) - 2)

\* The number of separators in a string.
Slashes(str) == Cardinality({j \in 1..Len(str) : str[j] = "/"})

GetUrlEncodesSegments ==
    /\ (storage.op[1] = "getUrl" /\ Len(storage.op[2]) > 0) =>
        LET path == storage.op[2]
            segments == Split(path, "/")
        IN  /\ Len(storage.last) = 1
            /\ storage.last[1][1] = "return"
            /\ LET url == storage.last[1][2]
                   part == PathPart(url)
               IN  /\ url[1] = "{dabblebaseUrl}/api/project/{projectId}/storage/view/"
                   /\ part = Flatten([j \in 1..Len(path) |->
                                IF path[j] = "/" THEN <<"/">> ELSE EncodeChar(path[j])])
                   /\ Slashes(part) = Slashes(path)
                   /\ Len(Split(part, "/")) = Len(segments)
                   /\ \A j \in 1..Len(segments) :
                        Split(part, "/")[j] = EncodeURIComponent(segments[j])
    /\ storage.op[1] = "getUrl" => storage.again # "differs"

GetUrlOfNestedPath ==
    /\ storage.op = <<"getUrl", <<" ", "/">> >>
    /\ storage.fetches = 0
    /\ storage.again = "same"
    /\ PathPart(storage.last[1][2]) = <<"%", "2", "0", "/">>

ThrewTransportError(trace, response) ==
    /\ Positions(trace, "throw") = {Len(trace)}
    /\ Len(trace[Len(trace)]) = 3
    /\ trace[Len(trace)][3] = response.status

\* The call read the text of the body, once, right before its last step.
ReadBodyText(trace) ==
    /\ Len(trace) >= 2
    /\ Positions(trace, "response.text") = {Len(trace) - 1}

\* The call made one request or none, and none only when it threw at once.
OneRequestPerCall(trace) ==
    /\ Cardinality(Positions(trace, "fetch")) <= 1
    /\ Positions(trace, "fetch") = {} =>
            /\ Len(trace) = 1 /\ trace[1][1] = "throw"
            /\ PathIsEmpty \/ FileIsAbsent

TransportErrorsRaisedOnce ==
    storage.op[1] \in {"upload", "list", "delete"} =>
        LET trace == storage.last
        IN  /\ OneRequestPerCall(trace)
            /\ storage.fetches <= storage.calls
            /\ \A j \in Positions(trace, "fetch") :
                    LET response == trace[j][6]
                    IN  IF response.ok
                        THEN /\ Positions(trace, "throw") = {}
                             /\ Positions(trace, "response.text") = {}
                             /\ trace[Len(trace)][1] = "return"
                        ELSE /\ ThrewTransportError(trace, response)
                             /\ storage.op[1] \in {"upload", "list"} => ReadBodyText(trace)
                             /\ storage.op[1] = "delete" =>
                                    Positions(trace, "response.text") = {}

\* delete of a path was refused with status 500: one request, then the throw.
DeleteRefused ==
    /\ storage.op = <<"delete", <<"a">> >>
    /\ Len(storage.last) = 2
    /\ storage.last[1][1] = "fetch"
    /\ storage.last[1][6] = [ok |-> FALSE, status |-> 500]
    /\ storage.last[2] = <<"throw", "Failed to delete the file", 500>>

\* The claim as written: upload, list and delete alike read the status and
\* the text of the body before they throw.
TransportErrorsReadBodyText ==
    storage.op[1] \in {"upload", "list", "delete"} =>
        LET trace == storage.last
        IN  /\ OneRequestPerCall(trace)
            /\ \A j \in Positions(trace, "fetch") :
                    ~trace[j][6].ok =>
                        /\ ThrewTransportError(trace, trace[j][6])
                        /\ ReadBodyText(trace)

(***************************************************************************)
(* C15: on a broadcast connection, every broadcast(payload) does one       *)
(* thing: it pushes one "message" event with the payload on the            *)
(* connection's channel, and returns.  It does so whatever the state of    *)
(* the socket and the channel (joining, joined, join refused, left and     *)
(* closed), which it leaves as they are; it throws nothing and does not    *)
(* invoke onReceiveMessage, which only an arriving "message" event does.   *)
(***************************************************************************)
BroadcastPushesOnce ==
    /\ [](\A i \in ConnIds :
            LET c == Conn(i)
            IN  /\ c.count["channel.push"] = c.count["broadcast()"]
                /\ c.count["onReceiveMessage"] <= c.count["message"]
                /\ c.ev[1] = "broadcast()" =>
                        c.last = << <<"channel.push", "message", c.ev[2]>> >>)
    /\ [][\A i \in 1..Len(conns) :
            (Len(conns') = Len(conns)
                /\ conns'[i].count["broadcast()"] = conns[i].count["broadcast()"] + 1) =>
                /\ conns'[i].count["channel.push"] = conns[i].count["channel.push"] + 1
                /\ conns'[i].count["onReceiveMessage"] = conns[i].count["onReceiveMessage"]
                /\ conns'[i].count["throw"] = conns[i].count["throw"]
                /\ conns'[i].sock = conns[i].sock
                /\ conns'[i].chan = conns[i].chan
                /\ conns'[i].handlers = conns[i].handlers]_vars

\* A broadcast on a connection whose join was refused and whose socket was
\* closed by disconnect(): the event is pushed all the same.
BroadcastAfterFailureAndDisconnect ==
    \E i \in ConnIds :
        /\ Conn(i).ev = <<"broadcast()", "p2">>
        /\ Conn(i).last = << <<"channel.push", "message", "p2">> >>
        /\ Conn(i).sock = "closed"
        /\ Conn(i).count["throw"] = 1
        /\ Conn(i).count["disconnect()"] >= 1
        /\ "onReceiveMessage" \in Conn(i).opts
        /\ Conn(i).count["onReceiveMessage"] = 0

(***************************************************************************)
(* C16: every callback is optional.  Whatever subset of its callbacks a    *)
(* connection was given, the handlers of a join success, a database        *)
(* change, a broadcast message, a presence snapshot and a presence diff    *)
(* throw nothing, invoke no callback that was omitted, and invoke the      *)
(* supplied ones as they would with all supplied.  The one error thrown is *)
(* that of a refused join, thrown as the handler's last step, also when    *)
(* onConnectError is omitted (the handler then does nothing else).         *)
(***************************************************************************)
\* The trace of a handler that invokes the callback with the argument, or
\* does nothing when the callback was omitted.
InvokedIfSupplied(c, callback, args) ==
    c.last = IF callback \in c.opts THEN << <<callback>> \o args >> ELSE <<>>

\* The entries of a presence state that have some metadata.
WithMetas(state) == {k \in 1..Len(state) : Len(state[k][2]) > 0}

OmittedCallbacksSkipped ==
    \A i \in ConnIds :
        LET c == Conn(i)
            n == Len(c.last)
            Calls(callback) == Cardinality(Positions(c.last, callback))
        IN  /\ \A j \in 1..n : c.last[j][1] \in CallbacksOf(c.kind) => c.last[j][1] \in c.opts
            /\ c.count["throw"] <= 1
            /\ (c.ev[1] = "phx_reply" /\ c.ev[2] = "ok") =>
                    InvokedIfSupplied(c, "onConnect", <<>>)
            /\ c.ev[1] = "pg_change" => InvokedIfSupplied(c, "onDbChange", <<c.ev[2]>>)
            /\ c.ev[1] = "message" => InvokedIfSupplied(c, "onReceiveMessage", <<c.ev[2]>>)
            /\ c.ev[1] = "presence_state" =>
                    InvokedIfSupplied(c, "onReceivePresenceState", <<c.ev[2]>>)
            /\ c.ev[1] = "presence_diff" =>
                    /\ Positions(c.last, "throw") = {}
                    /\ Calls("onPresenceJoin") =
                            IF "onPresenceJoin" \in c.opts
                            THEN Cardinality(WithMetas(c.ev[2].joins)) ELSE 0
                    /\ Calls("onPresenceLeave") =
                            IF "onPresenceLeave" \in c.opts
                            THEN Cardinality(WithMetas(c.ev[2].leaves)) ELSE 0
                    /\ Calls("onReceivePresenceState") =
                            IF "onReceivePresenceState" \in c.opts THEN 1 ELSE 0
                    /\ n = Calls("onPresenceJoin") + Calls("onPresenceLeave")
                            + Calls("onReceivePresenceState")
                    /\ "onReceivePresenceState" \in c.opts =>
                            c.last[n] = <<"onReceivePresenceState", c.ev[2].joins>>
            /\ (c.ev[1] = "phx_reply" /\ c.ev[2] = "error") =>
                    /\ n >= 1
                    /\ Positions(c.last, "throw") = {n}
                    /\ c.count["throw"] = 1
                    /\ "onConnectError" \notin c.opts => n = 1
                    /\ "onConnectError" \in c.opts =>
                            /\ n = 2
                            /\ c.last[1] = <<"onConnectError", c.ev[3]>>

\* A presence connection given onReceivePresenceState alone handles a diff
\* that joins u1: the join is not reported, the state is.
DiffWithOnlyStateCallback ==
    \E i \in ConnIds :
        /\ Conn(i).opts = {"onReceivePresenceState"}
        /\ Conn(i).ev[1] = "presence_diff"
        /\ Conn(i).ev[2] = [joins |-> << <<"u1", <<"t1">> >> >>, leaves |-> <<>>]
        /\ Conn(i).last = << <<"onReceivePresenceState", << <<"u1", <<"t1">> >> >> >> >>
        /\ Conn(i).count["onConnect"] = 0
        /\ Conn(i).count["throw"] = 0

(***************************************************************************)
(* Several realtime connections side by side: up to MaxConns listen* calls *)
(* of any kind with all callbacks supplied, their joins, events and        *)
(* broadcasts, and their teardown in any order.                            *)
(***************************************************************************)
NextMany ==
    \/ \E kind \in Kinds : Len(conns) < MaxConns /\ Listen(kind, CallbacksOf(kind))
    \/ \E i \in 1..Len(conns) : JoinOk(i)
    \/ \E i \in 1..Len(conns) : JoinError(i, "e1")
    \/ \E i \in 1..Len(conns) : PgChange(i, "INSERT")
    \/ \E i \in 1..Len(conns) : Message(i, "p1")
    \/ \E i \in 1..Len(conns) : PresenceStateEvent(i, <<>>)
    \/ \E i \in 1..Len(conns) : Broadcast(i, "p1")
    \/ \E i \in 1..Len(conns) : conns[i].sock = "open" /\ Disconnect(i)

SpecMany == Init /\ [][NextMany]_vars

\* The connections a step changed.
Changed == {j \in 1..Len(conns) : conns'[j] # conns[j]}

\* A connection as its listen* call leaves it: its own socket, connected
\* once, and its own channel, joined once.
FreshlyListening(c) ==
    /\ c.sock = "open" /\ c.chan = "joining" /\ c.closes = 0
    /\ c.count["socket.connect"] = 1 /\ c.count["socket.channel"] = 1
    /\ c.count["channel.join"] = 1
    /\ c.count["channel.leave"] = 0 /\ c.count["socket.disconnect"] = 0

(***************************************************************************)
(* C12: realtime connections are independent.  Every listen* call adds a   *)
(* connection with a socket and a channel of its own and leaves the        *)
(* existing connections as they were; every other step (a join reply, an   *)
(* event, a broadcast, a disconnect()) changes the one connection it is    *)
(* about and leaves the socket, channel, handlers and callback record of   *)
(* every other connection unchanged.  So a socket is closed and a channel  *)
(* left only by the disconnect() of its own connection, once, however many *)
(* connections there are and in whatever order they are torn down.         *)
(***************************************************************************)
ConnectionsIndependent ==
    /\ [](\A j \in 1..Len(conns) :
            /\ conns[j].sock = "closed" <=> conns[j].count["disconnect()"] > 0
            /\ conns[j].closes = conns[j].count["socket.disconnect"]
            /\ conns[j].count["channel.leave"] = conns[j].count["disconnect()"]
            /\ conns[j].count["socket.disconnect"] = conns[j].count["disconnect()"]
            /\ conns[j].count["socket.connect"] = 1
            /\ conns[j].count["socket.channel"] = 1)
    /\ [][/\ Len(conns') >= Len(conns)
          /\ Cardinality(Changed) <= 1
          /\ Len(conns') > Len(conns) =>
                /\ Len(conns') = Len(conns) + 1
                /\ Changed = {}
                /\ FreshlyListening(conns'[Len(conns')])]_vars

\* The second connection was torn down first, and the first one is still
\* joined on its open socket and has just delivered an event to its callback.
LaterConnectionTornDownFirst ==
    /\ Len(conns) >= 2
    /\ conns[2].sock = "closed" /\ conns[2].chan = "leaving"
    /\ conns[2].count["disconnect()"] = 1
    /\ conns[1].sock = "open" /\ conns[1].chan = "joined"
    /\ conns[1].count["disconnect()"] = 0
    /\ conns[1].ev[1] = "message"
    /\ Len(conns[1].last) = 1 /\ conns[1].last[1][1] = "onReceiveMessage"

=============================================================================
